---- MODULE Spec2Model ----
(***************************************************************************)
(* Model of openldap.py: a batch of user actions (create/update/delete)    *)
(* read from a JSON file, applied one by one to an LDAP directory, with    *)
(* one CSV row written per processed record.                               *)
(*                                                                         *)
(* Strings that the code slices or searches (usernames, patterns) are      *)
(* sequences of one-character strings; a DN "uid=" + username + OU is the   *)
(* record [rdn, ou].  Python exceptions that leave a function are the      *)
(* outcome RAISE.                                                          *)
(***************************************************************************)
EXTENDS Integers, Sequences, FiniteSets, TLC

(* ------------------------------ bounds -------------------------------- *)

\* longest batch (number of rows under "useractions")
MaxRecords == 2
\* most LDAP calls that fail for transport reasons while one record is processed
MaxFaults == 2
\* most entries the directory holds before the batch starts
MaxInitEntries == 1

(* ------------------- openldap_settings.py (examples) ------------------ *)

STUPATTERN == <<"_">>
GSTPATTERN == <<"g", "s", "t">>
STUDENTOU == ",ou=students"
GUESTOU == ",ou=guests"
EMPOU == ",ou=employees"

(* ------------------------------ inputs -------------------------------- *)

\* usernames of the batch: two employees, one student, one guest
Usernames ==
    { <<"j", "d">>, <<"k", "m">>, <<"s", "_">>,
      <<"g", "s", "t", "0", "0", "0", "1">> }

\* a username or newusername value of a row; <<>> is the empty string
NameValues == Usernames \cup { <<>> }

Actions == {"create", "update", "delete", "purge"}

\* the JSON keys main() reads besides action, username and newusername
OtherKeys ==
    {"uidNumber", "gidNumber", "givenName", "fullName", "sn", "employeeType",
     "DNumber", "primO", "businessCategory", "userPassword"}

\* the keys a row of the batch may leave empty (one per group of callers)
BlankKeys == {"uidNumber", "givenName", "userPassword"}

\* a row of the input: blank is the set of OtherKeys whose value is ""
Rows ==
    [action : Actions, username : NameValues, newusername : NameValues,
     blank : {{}} \cup {{k} : k \in BlankKeys}]

\* the LDAP calls of one invocation that can fail for transport reasons
FaultSites == {"bind", "find1", "find2", "find3", "posix", "write", "modify"}

FaultSets == {F \in SUBSET FaultSites : Cardinality(F) <= MaxFaults}

(* ------------------------- pure functions ----------------------------- *)

\* Python: pat in s
Contains(pat, s) ==
    \E k \in 0..(Len(s) - Len(pat)) : SubSeq(s, k + 1, k + Len(pat)) = pat

\* Python: s[0:-4]
StripLast4(s) == SubSeq(s, 1, Len(s) - 4)

getUserType(username) ==
    IF Contains(STUPATTERN, username) THEN "STU"
    ELSE IF GSTPATTERN = StripLast4(username) THEN "GST"
    ELSE "EMP"

buildDN(username) ==
    LET userType == getUserType(username)
    IN  IF userType = "STU" THEN [rdn |-> username, ou |-> STUDENTOU]
        ELSE IF userType = "GST" THEN [rdn |-> username, ou |-> GUESTOU]
        ELSE [rdn |-> username, ou |-> EMPOU]

(* --------------------------- the directory ---------------------------- *)

OUs == {STUDENTOU, GUESTOU, EMPOU}

\* an entry: its DN is uid=<rdn><ou>, its uid attribute is rdn, and posix
\* tells whether its objectClass values include posixAccount
Entries == [rdn : Usernames, ou : OUs, posix : BOOLEAN]

DNof(e) == [rdn |-> e.rdn, ou |-> e.ou]

EntryAt(d, dn) == {e \in d : DNof(e) = dn}

\* search_s(baseDN, SCOPE_SUBTREE, "uid=<username>")
SearchUid(d, username) == {e \in d : e.rdn = username}

\* search_s(baseDN, SCOPE_SUBTREE, "(&(uid=<username>)(objectClass=posixAccount))")
SearchPosix(d, username) == {e \in d : e.rdn = username /\ e.posix}

\* add_s: refused when the DN is taken
AddOk(d, dn) == EntryAt(d, dn) = {}
AddEntry(d, dn) == d \cup {[rdn |-> dn.rdn, ou |-> dn.ou, posix |-> FALSE]}

\* rename_s(dn, "uid=" + newrdn): refused when dn is absent or the new DN is taken
RenameOk(d, dn, newrdn) ==
    /\ EntryAt(d, dn) # {}
    /\ EntryAt(d, [rdn |-> newrdn, ou |-> dn.ou]) = {}
RenameEntryCopy(d, dn, newrdn) ==
    d \cup {[e EXCEPT !.rdn = newrdn] : e \in EntryAt(d, dn)}
RenameEntry(d, dn, newrdn) ==
    (d \ EntryAt(d, dn)) \cup {[e EXCEPT !.rdn = newrdn] : e \in EntryAt(d, dn)}

ProfileAttrs ==
    {"givenName", "cn", "sn", "uid", "mail", "employeeType", "employeeNumber",
     "o", "businessCategory"}
PosixAttrs == {"uidNumber", "gidNumber", "homeDirectory"}

\* modify_s(dn, mod_attrs): refused when dn is absent, or when the posix
\* attributes are put on an entry that has no posixAccount class
ModifyOk(d, dn, attrs) ==
    /\ EntryAt(d, dn) # {}
    /\ attrs = PosixAttrs => \A e \in EntryAt(d, dn) : e.posix

\* delete_s: refused when dn is absent
DeleteOk(d, dn) == EntryAt(d, dn) # {}
DeleteEntryKept(d, dn) == d
DeleteEntry(d, dn) == d \ EntryAt(d, dn)

(* ------------------------ outcomes and the call log ------------------- *)

\* the outcome of a function that an exception leaves
RAISE == "RAISE"

NoDN == [rdn |-> <<>>, ou |-> ""]

\* one LDAP call: what was called, on which username and DN, with which
\* attributes, and how it ended ("ok", "fail", and for the two checks the
\* value they return or RAISE); n is the number of matches of a search,
\* -1 when the search failed
Call(op, name, dn, attrs, n, ret) ==
    [op |-> op, name |-> name, dn |-> dn, attrs |-> attrs, n |-> n, ret |-> ret]

\* what an invocation of create/update/delete leaves: the result string (or
\* RAISE), the directory, the calls made, and the connections left open
Out(result, d, calls, leak) ==
    [result |-> result, dir |-> d, calls |-> calls, leak |-> leak]

MissingValue(item) ==
    "ERROR: Missing an expected input value for " \o item \o " in input file"

\* the argument main() passes for parameter p of create/update/delete
Arg(r, p) ==
    CASE p = "username" -> IF r.username = <<>> THEN "" ELSE "x"
      [] p = "newusername" -> IF r.newusername = <<>> THEN "" ELSE "x"
      [] p = "dNumber" -> IF "DNumber" \in r.blank THEN "" ELSE "x"
      [] p = "ou" -> IF "primO" \in r.blank THEN "" ELSE "x"
      [] OTHER -> IF p \in r.blank THEN "" ELSE "x"

ldapConnect(F) ==
    IF "bind" \in F THEN Call("bind", <<>>, NoDN, {}, 0, "fail")
    ELSE Call("bind", <<>>, NoDN, {}, 0, "ok")

\* the name ldap_result is bound only when search_s returns: when it raises,
\* the handler logs and len(ldap_result) raises UnboundLocalError
findUserRet(n) ==
    IF n = -1 THEN RAISE
    ELSE IF n = 0 THEN "False"
    ELSE IF n > 1 THEN "False"
    ELSE "True"

findUser(d, username, failed) ==
    LET n == IF failed THEN -1 ELSE Cardinality(SearchUid(d, username))
    IN  Call("findUser", username, NoDN, {}, n, findUserRet(n))

containsPosixAccountRet(n) ==
    IF n = -1 THEN RAISE
    ELSE IF n = 0 THEN "False"
    ELSE IF n > 1 THEN "False"
    ELSE "True"

containsPosixAccount(d, username, failed) ==
    LET n == IF failed THEN -1 ELSE Cardinality(SearchPosix(d, username))
    IN  Call("containsPosixAccount", username, NoDN, {}, n,
             containsPosixAccountRet(n))

Unbind == Call("unbind", <<>>, NoDN, {}, 0, "ok")

(* ------------------------------ create -------------------------------- *)

createParamsNoPassword ==
    {"username", "givenName", "fullName", "sn", "employeeType", "dNumber", "ou",
     "businessCategory"}

createParams ==
    {"username", "givenName", "fullName", "sn", "employeeType", "dNumber", "ou",
     "businessCategory", "userPassword"}

\* lines 204-251: the add, with l the bind and found the existence check
createNew(d, username, F, l, found) ==
    LET dn == buildDN(username)
        addOk == "write" \notin F /\ AddOk(d, dn)
        add == Call("add", username, dn, {}, 0, IF addOk THEN "ok" ELSE "fail")
    IN  IF ~addOk
        THEN {Out("ERROR: Could not create ldap user", d, <<l, found, add>>, 1)}
        ELSE {Out("SUCCESS: User added to ldap", AddEntry(d, dn),
                  <<l, found, add, Unbind>>, 0)}

createExistingNoCheck(d, username, F, l, found) ==
    createNew(d, username, F, l, found)

\* lines 196-202: the user already exists
createExisting(d, username, F, l, found) ==
    {Out("ERROR: username already taken!", d, <<l, found>>, 1)}

\* the outcomes of create() on row r in directory d when the calls in F fail
create(d, r, F) ==
    LET username == r.username
        missing == {p \in createParams : Arg(r, p) = ""}
        l == ldapConnect(F)
        found == findUser(d, username, "find1" \in F)
    IN  IF missing # {}
        THEN {Out(MissingValue(p), d, <<>>, 0) : p \in missing}
        ELSE IF l.ret = "fail"
        THEN {Out("ERROR: unable to connect to LDAP server", d, <<l>>, 0)}
        ELSE IF found.ret = RAISE
        THEN {Out(RAISE, d, <<l, found>>, 1)}
        ELSE IF found.ret = "True"
        THEN createExisting(d, username, F, l, found)
        ELSE createNew(d, username, F, l, found)

(* ------------------------------ update -------------------------------- *)

updateParams ==
    {"username", "newusername", "uidNumber", "gidNumber", "givenName",
     "fullName", "sn", "employeeType", "dNumber", "ou", "businessCategory"}

crossTypeUnchecked(username, newusername) == FALSE

\* line 292: the two usernames are of different types
crossType(username, newusername) ==
    getUserType(username) # getUserType(newusername)

\* lines 287-330: the rename.  ret is the result update() returns from here,
\* RAISE when an exception leaves it, "" when it goes on to the modify;
\* dnBound tells whether the local name dn was assigned (line 312)
renameStage(d, r, F) ==
    LET username == r.username
        newusername == r.newusername
        taken == findUser(d, newusername, "find2" \in F)
        dn == buildDN(username)
        renOk == "write" \notin F /\ RenameOk(d, dn, newusername)
        ren == Call("rename", newusername, dn, {}, 0,
                    IF renOk THEN "ok" ELSE "fail")
        \* an exception of findUser or rename_s is caught at line 321, and
        \* the result set there is not returned
        renamed == taken.ret # RAISE /\ renOk
        d2 == IF renamed THEN RenameEntry(d, dn, newusername) ELSE d
        calls1 == IF taken.ret = RAISE THEN <<taken>> ELSE <<taken, ren>>
        again == findUser(d2, newusername, "find3" \in F)
    IN  IF username = newusername
        THEN [ret |-> "", dir |-> d, calls |-> <<>>, dnBound |-> FALSE]
        ELSE IF crossType(username, newusername)
        THEN [ret |-> "ERROR: won't rename users across different types",
              dir |-> d, calls |-> <<>>, dnBound |-> FALSE]
        ELSE IF taken.ret = "True"
        THEN [ret |-> "ERROR: newusername already taken!",
              dir |-> d, calls |-> <<taken>>, dnBound |-> FALSE]
        ELSE IF again.ret = RAISE
        THEN [ret |-> RAISE, dir |-> d2, calls |-> calls1 \o <<again>>,
              dnBound |-> taken.ret # RAISE]
        ELSE [ret |-> "", dir |-> d2, calls |-> calls1 \o <<again>>,
              dnBound |-> taken.ret # RAISE]

\* the result update() ends with when line 369 caught an exception: the
\* error result is overwritten at line 376, after line 375 has read dn
afterHandledError(dnBound) ==
    IF dnBound THEN "SUCCESS: User updated in ldap" ELSE RAISE

\* lines 332-378: the modify
modifyStage(d, r, F, dnBound) ==
    LET username == r.username
        newusername == r.newusername
        posix == containsPosixAccount(d, username, "posix" \in F)
        attrs == IF posix.ret = "True" THEN PosixAttrs ELSE ProfileAttrs
        dn == buildDN(newusername)
        modOk == "modify" \notin F /\ ModifyOk(d, dn, attrs)
        mod == Call("modify", newusername, dn, attrs, 0,
                    IF modOk THEN "ok" ELSE "fail")
    IN  IF posix.ret = RAISE
        THEN [ret |-> afterHandledError(dnBound), calls |-> <<posix>>,
              leak |-> 1]
        ELSE IF ~modOk
        THEN [ret |-> "ERROR: Could not update ldap user",
              calls |-> <<posix, mod>>, leak |-> 1]
        ELSE [ret |-> "SUCCESS: User updated in ldap",
              calls |-> <<posix, mod, Unbind>>, leak |-> 0]

\* lines 287-378: the user exists
updateFound(d, r, F, l, found) ==
    LET rs == renameStage(d, r, F)
        ms == modifyStage(rs.dir, r, F, rs.dnBound)
    IN  IF rs.ret # ""
        THEN {Out(rs.ret, rs.dir, <<l, found>> \o rs.calls, 1)}
        ELSE {Out(ms.ret, rs.dir, <<l, found>> \o rs.calls \o ms.calls,
                  ms.leak)}

\* lines 281-285: the user does not exist
updateAbsent(d, r, F, l, found) ==
    {Out("ERROR: user could not be found!", d, <<l, found>>, 1)}

\* the outcomes of update() on row r in directory d when the calls in F fail
update(d, r, F) ==
    LET username == r.username
        missing == {p \in updateParams : Arg(r, p) = ""}
        l == ldapConnect(F)
        found == findUser(d, username, "find1" \in F)
    IN  IF missing # {}
        THEN {Out(MissingValue(p), d, <<>>, 0) : p \in missing}
        ELSE IF l.ret = "fail"
        THEN {Out("ERROR: unable to connect to LDAP server", d, <<l>>, 0)}
        ELSE IF found.ret = RAISE
        THEN {Out(RAISE, d, <<l, found>>, 1)}
        ELSE IF found.ret = "False"
        THEN updateAbsent(d, r, F, l, found)
        ELSE updateFound(d, r, F, l, found)

(* ------------------------------ delete -------------------------------- *)

\* lines 409-435: the delete_s, with l the bind and found the existence check
deleteFound(d, username, F, l, found) ==
    LET dn == buildDN(username)
        delOk == "write" \notin F /\ DeleteOk(d, dn)
        del == Call("delete", username, dn, {}, 0,
                    IF delOk THEN "ok" ELSE "fail")
    IN  IF ~delOk
        THEN {Out("ERROR: Could not delete ldap user", d, <<l, found, del>>, 1)}
        ELSE {Out("SUCCESS: User deleted from ldap", DeleteEntry(d, dn),
                  <<l, found, del, Unbind>>, 0)}

deleteAbsentNoCheck(d, username, F, l, found) ==
    deleteFound(d, username, F, l, found)

\* lines 403-407: the user does not exist
deleteAbsent(d, username, F, l, found) ==
    {Out("ERROR: user could not be found!", d, <<l, found>>, 1)}

\* the outcomes of delete() on row r in directory d when the calls in F fail
delete(d, r, F) ==
    LET username == r.username
        l == ldapConnect(F)
        found == findUser(d, username, "find1" \in F)
    IN  IF Arg(r, "username") = ""
        THEN {Out(MissingValue("username"), d, <<>>, 0)}
        ELSE IF l.ret = "fail"
        THEN {Out("ERROR: unable to connect to LDAP server", d, <<l>>, 0)}
        ELSE IF found.ret = RAISE
        THEN {Out(RAISE, d, <<l, found>>, 1)}
        ELSE IF found.ret = "False"
        THEN deleteAbsent(d, username, F, l, found)
        ELSE deleteFound(d, username, F, l, found)

(* ------------------------------- main --------------------------------- *)

VARIABLES
    dir,      \* the directory's entries under baseDN
    dir0,     \* the directory's entries when the batch started
    n,        \* the number of rows of reader["useractions"]
    input,    \* the rows the loop has taken so far, as <<action, username>>
    report,   \* the rows written to the output file
    pc,       \* "loop" inside the try block, "closed" after the finally block
    open,     \* connections bound and not unbound
    row,      \* the row of the last iteration
    outcome,  \* what the last iteration's call returned, or RAISE
    calls     \* the LDAP calls of the last iteration

vars == <<dir, dir0, n, input, report, pc, open, row, outcome, calls>>

Header == <<"action", "username", "result">>

NoRow == [action |-> "", username |-> <<>>, newusername |-> <<>>, blank |-> {}]

\* the directories of at most k entries, no two at one DN
RECURSIVE DirsUpTo(_)
DirsUpTo(k) ==
    IF k = 0 THEN {{}}
    ELSE LET S == DirsUpTo(k - 1)
         IN  S \cup UNION {{d \cup {e} :
                                e \in {x \in Entries :
                                          \A y \in d : DNof(y) # DNof(x)}} :
                            d \in S}

\* the directories a batch may start from
InitDirs == DirsUpTo(MaxInitEntries)

\* the state at line 125, before the first row, of a batch of n rows
Start(d, len) ==
    /\ dir = d
    /\ dir0 = d
    /\ n = len
    /\ input = <<>>
    /\ report = <<Header>>
    /\ pc = "loop"
    /\ open = 0
    /\ row = NoRow
    /\ outcome = ""
    /\ calls = <<>>

Init == \E d \in InitDirs, len \in 0..MaxRecords : Start(d, len)

\* line 150, and lines 156-166 when an exception left the call
writeRow(r, result) ==
    IF result = RAISE
    THEN /\ report' = report
         /\ pc' = "closed"
    ELSE /\ report' = Append(report, <<r.action, r.username, result>>)
         /\ pc' = "loop"

\* one iteration of the loop at line 125 on row r with outcome o
Iterate(r, o) ==
    /\ input' = Append(input, <<r.action, r.username>>)
    /\ row' = r
    /\ outcome' = o.result
    /\ calls' = o.calls
    /\ dir' = o.dir
    /\ open' = open + o.leak
    /\ writeRow(r, o.result)
    /\ UNCHANGED <<n, dir0>>

HasNext == pc = "loop" /\ Len(input) < n

DoCreate(R, FS) ==
    /\ HasNext
    /\ \E r \in R, F \in FS :
        /\ r.action = "create"
        /\ \E o \in create(dir, r, F) : Iterate(r, o)

DoUpdate(R, FS) ==
    /\ HasNext
    /\ \E r \in R, F \in FS :
        /\ r.action = "update"
        /\ \E o \in update(dir, r, F) : Iterate(r, o)

DoDelete(R, FS) ==
    /\ HasNext
    /\ \E r \in R, F \in FS :
        /\ r.action = "delete"
        /\ \E o \in delete(dir, r, F) : Iterate(r, o)

DoUnrecognized(R) ==
    /\ HasNext
    /\ \E r \in R :
        /\ r.action \notin {"create", "update", "delete"}
        /\ Iterate(r, Out("ERROR: Unrecognized action", dir, <<>>, 0))

\* the loop is over: the finally block closes the files
Close ==
    /\ pc = "loop"
    /\ Len(input) = n
    /\ pc' = "closed"
    /\ UNCHANGED <<dir, dir0, n, input, report, open, row, outcome, calls>>

(* ---- batches of up to MaxRecords rows over the batch's usernames ----- *)

BatchNames == {<<"j", "d">>, <<"s", "_">>}

BatchRows ==
    {r \in Rows : /\ r.username \in BatchNames \cup {<<>>}
                  /\ r.newusername \in BatchNames \cup {<<>>}}

BatchFaults == {F \in FaultSets : Cardinality(F) <= 1}

Next ==
    \/ DoCreate(BatchRows, BatchFaults)
    \/ DoUpdate(BatchRows, BatchFaults)
    \/ DoDelete(BatchRows, BatchFaults)
    \/ DoUnrecognized(BatchRows)
    \/ Close

Spec == Init /\ [][Next]_vars

(* ---------- one row, any usernames, up to MaxFaults failures ---------- *)

InitRecord == \E d \in InitDirs : Start(d, 1)

NextRecord ==
    \/ DoCreate(Rows, FaultSets)
    \/ DoUpdate(Rows, FaultSets)
    \/ DoDelete(Rows, FaultSets)
    \/ DoUnrecognized(Rows)
    \/ Close

SpecRecord == InitRecord /\ [][NextRecord]_vars

(* ----- create, update (no rename), delete of one username, no failures ----- *)

RoundTripActions == <<"create", "update", "delete">>

\* the rows the reader can yield next: the three actions in order, on the
\* username of the first row, every field filled in
RoundTripRows ==
    IF Len(input) >= Len(RoundTripActions) THEN {}
    ELSE {r \in Rows :
            /\ r.action = RoundTripActions[Len(input) + 1]
            /\ r.username \in Usernames
            /\ r.newusername = r.username
            /\ r.blank = {}
            /\ input # <<>> => r.username = input[1][2]}

NoFaults == {{}}

InitRoundTrip == \E d \in InitDirs : Start(d, Len(RoundTripActions))

NextRoundTrip ==
    \/ DoCreate(RoundTripRows, NoFaults)
    \/ DoUpdate(RoundTripRows, NoFaults)
    \/ DoDelete(RoundTripRows, NoFaults)
    \/ Close

SpecRoundTrip == InitRoundTrip /\ [][NextRoundTrip]_vars

(* ---- one row, from every directory whose entries sit at buildDN ------- *)

\* the entries that sit at the DN buildDN gives their uid
PlacedEntries == {e \in Entries : DNof(e) = buildDN(e.rdn)}

\* the directories in which every username has at most one entry, at buildDN
PlacedDirs ==
    {d \in SUBSET PlacedEntries : \A e1, e2 \in d : e1.rdn = e2.rdn => e1 = e2}

InitPlaced == \E d \in PlacedDirs : Start(d, 1)

SpecPlaced == InitPlaced /\ [][NextRecord]_vars

(* ============================== claims ================================ *)

\* the calls of the last iteration whose operation is in ops
CallsOf(ops) == {calls[k] : k \in {j \in 1..Len(calls) : calls[j].op \in ops}}

\* what the existence check on the row's username returned in the last
\* iteration; "none" when it was not reached
ExistsCheck ==
    IF Len(calls) >= 2 /\ calls[2].op = "findUser" THEN calls[2].ret ELSE "none"

\* the JSON keys whose value is required by each action
RequiredKeys(action) ==
    CASE action = "create" ->
            {"username", "givenName", "fullName", "sn", "employeeType",
             "DNumber", "primO", "businessCategory", "userPassword"}
      [] action = "update" ->
            {"username", "newusername", "uidNumber", "gidNumber", "givenName",
             "fullName", "sn", "employeeType", "DNumber", "primO",
             "businessCategory"}
      [] action = "delete" -> {"username"}
      [] OTHER -> {}

\* the JSON keys of row r whose value is the empty string
EmptyKeys(r) ==
    r.blank \cup (IF r.username = <<>> THEN {"username"} ELSE {})
            \cup (IF r.newusername = <<>> THEN {"newusername"} ELSE {})

\* the name the result string uses for a JSON key
FieldName(k) ==
    IF k = "DNumber" THEN "dNumber" ELSE IF k = "primO" THEN "ou" ELSE k

\* C1: a record's failure never stops the batch: when the run is over, every
\* one of the n records has been dispatched, the ones after a failing record
\* included (their rows are the matter of C2).
C1_FailureNeverStopsBatch == pc = "closed" => Len(input) = n

\* C2: the report is the header row followed by exactly one row per input
\* record, in input order, the i-th row starting with the i-th record's
\* action and username.
C2_OneRowPerRecordInOrder ==
    pc = "closed" =>
        /\ report[1] = Header
        /\ Len(report) = n + 1
        /\ \A k \in 1..Len(input) :
            /\ k + 1 <= Len(report)
            /\ report[k + 1][1] = input[k][1]
            /\ report[k + 1][2] = input[k][2]

\* C3: a create whose existence check returned true yields the duplicate
\* outcome, calls no add, and leaves the directory as it was.
C3_DuplicateCreate ==
    (row.action = "create" /\ ExistsCheck = "True") =>
        /\ outcome = "ERROR: username already taken!"
        /\ CallsOf({"add"}) = {}
        /\ dir = dir0

C3_Witness ==
    /\ row.action = "create"
    /\ ExistsCheck = "True"
    /\ outcome = "ERROR: username already taken!"
    /\ dir # {}

\* C4: an update or delete whose existence check returned false yields the
\* not-found outcome, calls no rename, modify or delete, and leaves the
\* directory as it was; no update or delete adds an entry.
C4_AbsentUpdateDelete ==
    row.action \in {"update", "delete"} =>
        /\ ExistsCheck = "False" =>
            /\ outcome = "ERROR: user could not be found!"
            /\ CallsOf({"rename", "modify", "delete"}) = {}
            /\ dir = dir0
        /\ CallsOf({"add"}) = {}
        /\ Cardinality(dir) <= Cardinality(dir0)

C4_Witness ==
    /\ row.action = "delete"
    /\ ExistsCheck = "False"
    /\ outcome = "ERROR: user could not be found!"

\* the last row is an update to a new username of another user type
CrossTypeUpdate ==
    /\ row.action = "update"
    /\ row.username # row.newusername
    /\ getUserType(row.username) # getUserType(row.newusername)

C6_FailedUpdateIsError ==
    (/\ row.action = "update"
     /\ \E c \in CallsOf({"rename", "modify"}) : c.ret = "fail")
        => outcome # "SUCCESS: User updated in ldap"

\* C7: a record with an empty required field yields the validation outcome
\* naming one of its empty required fields, and no LDAP call is made for it.
C7_ValidationFirst ==
    (RequiredKeys(row.action) \cap EmptyKeys(row)) # {} =>
        /\ \E k \in RequiredKeys(row.action) \cap EmptyKeys(row) :
            outcome = MissingValue(FieldName(k))
        /\ calls = <<>>
        /\ dir = dir0
        /\ open = 0

C7_Witness ==
    /\ row.action = "create"
    /\ row.username # <<>>
    /\ row.blank = {"userPassword"}
    /\ outcome = MissingValue("userPassword")
    /\ calls = <<>>

\* C8: no connection is left open after a record has been processed.
C8_NoConnectionLeftOpen == open = 0

\* C9: each of the two checks returns true exactly when its search returned
\* one match, and false (without raising) when the search failed.
C9_ChecksDegradeToFalse ==
    \A c \in CallsOf({"findUser", "containsPosixAccount"}) :
        c.ret = (IF c.n = 1 THEN "True" ELSE "False")

\* the username of the round trip and the result column of the report
RoundTripUser == input[1][2]
ResultColumn == [k \in 1..(Len(report) - 1) |-> report[k + 1][3]]

\* C10: create(u), update(u, u), delete(u) without failures on a directory
\* with no entry for u yield three successes, after which the existence
\* check for u returns false and the directory is what it was at the start.
C10_RoundTrip ==
    (/\ pc = "closed"
     /\ Len(input) = Len(RoundTripActions)
     /\ SearchUid(dir0, RoundTripUser) = {}) =>
        /\ ResultColumn = <<"SUCCESS: User added to ldap",
                            "SUCCESS: User updated in ldap",
                            "SUCCESS: User deleted from ldap">>
        /\ findUser(dir, RoundTripUser, FALSE).ret = "False"
        /\ dir = dir0

C10_Witness ==
    /\ pc = "closed"
    /\ Len(input) = Len(RoundTripActions)
    /\ SearchUid(dir0, RoundTripUser) = {}
    /\ dir0 # {}
    /\ Len(report) = Len(RoundTripActions) + 1
    /\ report[Len(report)][3] = "SUCCESS: User deleted from ldap"

\* the entries a successful modify call c of the last iteration acted on
ModifiedEntries(c) == EntryAt(dir, c.dn)

\* C11: an update replaces exactly the three posix attributes on an entry
\* that carries posixAccount and exactly the nine profile attributes on one
\* that does not, whether or not it has renamed the entry first.
C11_AttributeSetByClass ==
    row.action = "update" =>
        \A c \in CallsOf({"modify"}) :
            c.ret = "ok" =>
                \A e \in ModifiedEntries(c) :
                    c.attrs = (IF e.posix THEN PosixAttrs ELSE ProfileAttrs)

\* every entry of d sits at buildDN of its uid
Placed(d) == \A e \in d : DNof(e) = buildDN(e.rdn)

\* every username has at most one entry in d
OnePerUsername(d) ==
    \A u \in Usernames : Cardinality(SearchUid(d, u)) <= 1

\* the DN a rename call c moves its entry to
RenameTarget(c) == [rdn |-> c.name, ou |-> c.dn.ou]

\* C12: from a directory in which every username has at most one entry,
\* at buildDN(username), every create, update and delete record (failing
\* calls included) leaves such a directory; a successful rename moves its
\* entry to a DN that was free, leaves none at the old DN and keeps every
\* other entry.  Holding for one record from every such directory, it holds
\* after every sequence of records.
C12_PlacementAndUniqueness ==
    /\ Placed(dir)
    /\ OnePerUsername(dir)
    /\ \A c \in CallsOf({"rename"}) :
        c.ret = "ok" =>
            /\ EntryAt(dir, c.dn) = {}
            /\ EntryAt(dir0, RenameTarget(c)) = {}
            /\ Cardinality(EntryAt(dir, RenameTarget(c))) = 1
            /\ dir0 \ EntryAt(dir0, c.dn) = dir \ EntryAt(dir, RenameTarget(c))

\* a rename that succeeded, followed by a modify that failed
C12_Witness ==
    /\ row.action = "update"
    /\ \E c \in CallsOf({"rename"}) : c.ret = "ok"
    /\ \E c \in CallsOf({"modify"}) : c.ret = "fail"
    /\ outcome = "ERROR: Could not update ldap user"
    /\ Cardinality(dir) >= 2
    /\ dir # dir0

====
